---- MODULE Spec2Model ----
(***************************************************************************)
(* Model of package lru (src/lru/lru.go): an LRU cache made of a recency   *)
(* list (container/list) and an index from keys to list elements.          *)
(* Every public method is one atomic action: the cache is used by one      *)
(* goroutine at a time.                                                    *)
(***************************************************************************)
EXTENDS Integers, Sequences, FiniteSets, TLC

\* ---------------------------------------------------------------- bounds
NumKeys == 3
NumVals == 3
MaxCap == 2

Keys == 1..NumKeys
Vals == 1..NumVals
\* MaxEntries is a plain int: negative, zero (no limit) and positive values
Capacities == (0 - 1)..MaxCap
\* addresses of list elements; at most one more than the keys is ever live
ElemIds == 1..(NumKeys + 1)

\* the nil interface{} value returned by a Get miss
NoVal == 0
\* the nil *list.Element returned by Back() on an empty list
NoElem == 0
\* placeholder for "no key argument" in the record of the last call
NoKey == 0

VARIABLES
    MaxEntries,   \* Cache.MaxEntries
    OnEvicted,    \* TRUE iff Cache.OnEvicted is a non-nil func
    ll,           \* Cache.ll: element addresses, front first
    llNil,        \* TRUE iff Cache.ll is the nil pointer
    cache,        \* Cache.cache: key -> element address
    cacheNil,     \* TRUE iff Cache.cache is the nil map
    elems,        \* heap: element address -> *entry {key, value}
    \* observation of the calls made on the cache
    last,         \* the last call: method, arguments, branch taken, keys that left
    ret,          \* what the last call returned
    evicted,      \* the OnEvicted invocations made by the last call, in order
    touch,        \* present key -> rank of its last touch (1 = oldest)
    ref,          \* reference map: present key -> value of its most recent Add
    scen,         \* progress through the scenario of section 8 of the spec
    run,          \* keys added so far, while the calls were Adds of distinct keys only
    seen,         \* what the cache looked like at each OnEvicted invocation of the last call
    panicked,     \* TRUE once a call has hit a run-time panic
    added,        \* keys added to an unlimited cache while only Add and Get were called
    balance,      \* insertions of absent keys minus OnEvicted invocations, callback set
    \* two goroutines calling Add with no lock, statement by statement
    pc,           \* goroutine -> the line of lru.go it is about to execute
    loc,          \* goroutine -> its arguments key, value and local element e
    ncalls,       \* Add calls started so far
    overlap       \* TRUE once a call started while another was in progress

vars == <<MaxEntries, OnEvicted, ll, llNil, cache, cacheNil, elems,
          last, ret, evicted, touch, ref, scen, run,
          seen, panicked, added, balance, pc, loc, ncalls, overlap>>

conc == <<pc, loc, ncalls, overlap>>

\* what the calls of one goroutine after the other record
observed == <<last, ret, seen, touch, ref, scen, run, added, balance>>

Procs == {1, 2}

NoLocals == [key |-> NoKey, value |-> NoVal, e |-> NoElem]

\* ------------------------------------------------------- generic helpers
Range(s) == {s[i] : i \in DOMAIN s}

Restrict(f, S) == [x \in S |-> f[x]]

EmptyMap == [x \in {} |-> NoElem]

Perms(S) == {p \in [1..Cardinality(S) -> S] : Range(p) = S}

\* ---------------------------------------------------- container/list
\* a new element put at the back instead of the front
PushFront_Back(l, e) == l \o <<e>>

PushFront(l, e) == <<e>> \o l

\* the element exchanged with the front one
MoveToFront_Swap(l, e) ==
    IF e \in Range(l)
    THEN [i \in DOMAIN l |-> IF i = 1 THEN e ELSE IF l[i] = e THEN l[1] ELSE l[i]]
    ELSE l

\* an element left where it is
MoveToFront_Stay(l, e) == l

\* MoveToFront does nothing for an element that is not in the list
MoveToFront(l, e) ==
    IF e \in Range(l) THEN <<e>> \o SelectSeq(l, LAMBDA x : x # e) ELSE l

\* the node left in the list
ListRemove_Keep(l, e) == l

ListRemove(l, e) == SelectSeq(l, LAMBDA x : x # e)

\* the front element taken for the oldest
Back_Front(l) == IF Len(l) = 0 THEN NoElem ELSE l[1]

Back(l) == IF Len(l) = 0 THEN NoElem ELSE l[Len(l)]

\* ---------------------------------------------------------- Go maps
MapHit(m, key) == key \in DOMAIN m

\* the index never told of the element
MapSet_Skip(m, key, e) == m

MapSet(m, key, e) == [x \in DOMAIN m \cup {key} |-> IF x = key THEN e ELSE m[x]]

\* the key left in the index
MapDelete_Keep(m, key) == m

MapDelete(m, key) == Restrict(m, DOMAIN m \ {key})

\* ------------------------------------------------------------- heap
\* a fresh element gets an address that is not in use. Addresses are
\* interchangeable, so one representative is taken: the address numbered like
\* the key when it is free, else the lowest free one
NewElem(el, key) ==
    IF key \notin DOMAIN el THEN key
    ELSE CHOOSE i \in ElemIds \ DOMAIN el : \A j \in ElemIds \ DOMAIN el : i <= j

\* an element lives as long as the list or the index refers to it
Collect(c) == [c EXCEPT !.elems = Restrict(c.elems, Range(c.ll) \cup Range(c.cache))]

\* ------------------------------------------------------ the Cache struct
Struct == [ll |-> ll, llNil |-> llNil, cache |-> cache, cacheNil |-> cacheNil,
           elems |-> elems]

Install(c) ==
    /\ ll' = c.ll
    /\ llNil' = c.llNil
    /\ cache' = c.cache
    /\ cacheNil' = c.cacheNil
    /\ elems' = c.elems

\* New(maxEntries): empty list, empty map
NewStruct == [ll |-> <<>>, llNil |-> FALSE, cache |-> EmptyMap, cacheNil |-> FALSE,
              elems |-> EmptyMap]

\* the zero value Cache{}: both pointers nil
ZeroStruct == [ll |-> <<>>, llNil |-> TRUE, cache |-> EmptyMap, cacheNil |-> TRUE,
               elems |-> EmptyMap]

\* entries of the list, front first
EntriesOf(c) == [i \in DOMAIN c.ll |-> c.elems[c.ll[i]]]

KeysOf(c) == {c.elems[e].key : e \in Range(c.ll)}

\* Len()
LenOf(c) == IF c.cacheNil THEN 0 ELSE Len(c.ll)

\* list and index agree: same keys, one node per key, every handle is the
\* live node of its key, Len() counts the indexed keys
Consistent(c) ==
    /\ KeysOf(c) = DOMAIN c.cache
    /\ \A i, j \in DOMAIN c.ll : c.elems[c.ll[i]].key = c.elems[c.ll[j]].key => i = j
    /\ \A key \in DOMAIN c.cache :
          c.cache[key] \in Range(c.ll) /\ c.elems[c.cache[key]].key = key
    /\ LenOf(c) = Cardinality(DOMAIN c.cache)

\* what a callback invoked on struct c can observe of it
Snap(c) == [len |-> LenOf(c), reset |-> c.cacheNil, ok |-> Consistent(c)]

\* ------------------------------------------------------- method bodies
\* each yields the struct after the call (c), the OnEvicted invocations
\* (calls), the branch taken (hit) and the returned values (ret)

\* the callback never invoked
removeElement_Silent(c, e) ==
    LET kv == c.elems[e]
        c1 == [c EXCEPT !.ll = ListRemove(c.ll, e)]
        c2 == [c1 EXCEPT !.cache = MapDelete(c1.cache, kv.key)]
    IN  [c |-> Collect(c2), calls |-> <<>>, seen |-> <<>>]

\* the callback invoked a second time
removeElement_Twice(c, e) ==
    LET kv == c.elems[e]
        c1 == [c EXCEPT !.ll = ListRemove(c.ll, e)]
        c2 == [c1 EXCEPT !.cache = MapDelete(c1.cache, kv.key)]
    IN  [c |-> Collect(c2), calls |-> IF OnEvicted THEN <<kv, kv>> ELSE <<>>,
         seen |-> IF OnEvicted THEN <<Snap(c2), Snap(c2)>> ELSE <<>>]

removeElement(c, e) ==
    LET kv == c.elems[e]
        c1 == [c EXCEPT !.ll = ListRemove(c.ll, e)]
        c2 == [c1 EXCEPT !.cache = MapDelete(c1.cache, kv.key)]
    IN  [c |-> Collect(c2), calls |-> IF OnEvicted THEN <<kv>> ELSE <<>>,
         seen |-> IF OnEvicted THEN <<Snap(c2)>> ELSE <<>>]

RemoveOldestStep(c) ==
    IF c.cacheNil
    THEN [c |-> c, calls |-> <<>>, seen |-> <<>>]
    ELSE LET ele == Back(c.ll)
         IN  IF ele # NoElem THEN removeElement(c, ele)
             ELSE [c |-> c, calls |-> <<>>, seen |-> <<>>]

\* zero taken for a limit like any other
NeedsEviction_ZeroLimit(c) == Len(c.ll) > MaxEntries

\* the capacity test with >= for >
NeedsEviction_AtLeast(c) == MaxEntries # 0 /\ Len(c.ll) >= MaxEntries

\* the capacity test off by one
NeedsEviction_OffByOne(c) == MaxEntries # 0 /\ Len(c.ll) > MaxEntries + 1

\* the test of line 81
NeedsEviction(c) == MaxEntries # 0 /\ Len(c.ll) > MaxEntries

\* the map re-created, the list forgotten
Alloc_MapOnly(c) ==
    IF c.cacheNil THEN [c EXCEPT !.cache = EmptyMap, !.cacheNil = FALSE] ELSE c

\* lines 66-69: Add re-creates the structures when the map is nil
Alloc(c) ==
    IF c.cacheNil
    THEN [c EXCEPT !.cache = EmptyMap, !.cacheNil = FALSE, !.ll = <<>>, !.llNil = FALSE]
    ELSE c

\* the value of an existing entry left as it was
AddExisting_KeepValue(c, key, value) ==
    [c EXCEPT !.ll = MoveToFront(c.ll, c.cache[key])]

\* an existing key that evicts when the cache is full
AddExisting_Evict(c, key, value) ==
    LET ee == c.cache[key]
        c1 == [c EXCEPT !.ll = MoveToFront(c.ll, ee), !.elems[ee].value = value]
    IN  IF MaxEntries # 0 /\ Len(c1.ll) >= MaxEntries /\ Len(c1.ll) > 1
        THEN Collect([c1 EXCEPT !.ll = SubSeq(c1.ll, 1, Len(c1.ll) - 1),
                                !.cache = MapDelete(c1.cache, c1.elems[Back(c1.ll)].key)])
        ELSE c1

\* lines 72-76
AddExisting(c, key, value) ==
    LET ee == c.cache[key]
        c1 == [c EXCEPT !.ll = MoveToFront(c.ll, ee)]
    IN  [c1 EXCEPT !.elems[ee].value = value]

\* lines 78-79
AddNew(c, key, value) ==
    LET ele == NewElem(c.elems, key)
        c1  == [c EXCEPT !.elems = [x \in DOMAIN c.elems \cup {ele} |->
                                      IF x = ele THEN [key |-> key, value |-> value]
                                      ELSE c.elems[x]]]
        c2  == [c1 EXCEPT !.ll = PushFront(c1.ll, ele)]
    IN  [c2 EXCEPT !.cache = MapSet(c2.cache, key, ele)]

AddStep(c, key, value) ==
    LET c0 == Alloc(c)
    IN  IF MapHit(c0.cache, key)
        THEN [c |-> AddExisting(c0, key, value), calls |-> <<>>, seen |-> <<>>,
              hit |-> TRUE]
        ELSE LET c1 == AddNew(c0, key, value)
                 r  == IF NeedsEviction(c1) THEN RemoveOldestStep(c1)
                       ELSE [c |-> c1, calls |-> <<>>, seen |-> <<>>]
             IN  [c |-> r.c, calls |-> r.calls, seen |-> r.seen, hit |-> FALSE]

\* a hit that takes the entry out of the cache
GetStep_Drop(c, key) ==
    IF c.cacheNil
    THEN [c |-> c, hit |-> FALSE, ret |-> <<NoVal, FALSE>>]
    ELSE IF MapHit(c.cache, key)
         THEN LET ele == c.cache[key]
              IN  [c |-> Collect([c EXCEPT !.ll = ListRemove(c.ll, ele),
                                           !.cache = MapDelete(c.cache, key)]),
                   hit |-> TRUE, ret |-> <<c.elems[ele].value, TRUE>>]
         ELSE [c |-> c, hit |-> FALSE, ret |-> <<NoVal, FALSE>>]

\* a hit that pushes a second list node for the element
GetStep_Push(c, key) ==
    IF c.cacheNil
    THEN [c |-> c, hit |-> FALSE, ret |-> <<NoVal, FALSE>>]
    ELSE IF MapHit(c.cache, key)
         THEN LET ele == c.cache[key]
              IN  [c |-> [c EXCEPT !.ll = PushFront(c.ll, ele)], hit |-> TRUE,
                   ret |-> <<c.elems[ele].value, TRUE>>]
         ELSE [c |-> c, hit |-> FALSE, ret |-> <<NoVal, FALSE>>]

GetStep(c, key) ==
    IF c.cacheNil
    THEN [c |-> c, hit |-> FALSE, ret |-> <<NoVal, FALSE>>]
    ELSE IF MapHit(c.cache, key)
         THEN LET ele == c.cache[key]
              IN  [c |-> [c EXCEPT !.ll = MoveToFront(c.ll, ele)], hit |-> TRUE,
                   ret |-> <<c.elems[ele].value, TRUE>>]
         ELSE [c |-> c, hit |-> FALSE, ret |-> <<NoVal, FALSE>>]

\* a miss that still reports an eviction
RemoveStep_Notify(c, key) ==
    IF c.cacheNil
    THEN [c |-> c, calls |-> <<>>, seen |-> <<>>, hit |-> FALSE]
    ELSE IF MapHit(c.cache, key)
         THEN LET r == removeElement(c, c.cache[key])
              IN  [c |-> r.c, calls |-> r.calls, seen |-> r.seen, hit |-> TRUE]
         ELSE [c |-> c, hit |-> FALSE,
               calls |-> IF OnEvicted THEN <<[key |-> key, value |-> NoVal]>> ELSE <<>>,
               seen |-> IF OnEvicted THEN <<Snap(c)>> ELSE <<>>]

RemoveStep(c, key) ==
    IF c.cacheNil
    THEN [c |-> c, calls |-> <<>>, seen |-> <<>>, hit |-> FALSE]
    ELSE IF MapHit(c.cache, key)
         THEN LET r == removeElement(c, c.cache[key])
              IN  [c |-> r.c, calls |-> r.calls, seen |-> r.seen, hit |-> TRUE]
         ELSE [c |-> c, calls |-> <<>>, seen |-> <<>>, hit |-> FALSE]

\* the loop of Clear left after its first round
ClearCalls_First(c, ord) ==
    IF OnEvicted /\ Len(ord) > 0 THEN <<c.elems[c.cache[ord[1]]]>> ELSE <<>>

\* Clear ranges over the map in an order the runtime picks (ord)
ClearCalls(c, ord) ==
    IF OnEvicted THEN [i \in DOMAIN ord |-> c.elems[c.cache[ord[i]]]] ELSE <<>>

\* every callback of Clear runs on the struct as it was at the call: the reset
\* of lines 156-157 comes after the loop
ClearSeen(c, ord) ==
    IF OnEvicted THEN LET s == Snap(c) IN [i \in DOMAIN ord |-> s] ELSE <<>>

\* ---------------------------------------------------------- panics
\* a nil *list.List panics in PushFront, Back and Len, which read its fields;
\* MoveToFront and Remove only compare the pointer. A nil map panics on
\* assignment only.
AddPanics(c, key) ==
    LET c0 == Alloc(c)
    IN  ~MapHit(c0.cache, key) /\ (c0.llNil \/ c0.cacheNil)

RemoveOldestPanics(c) == ~c.cacheNil /\ c.llNil

LenPanics(c) == ~c.cacheNil /\ c.llNil

\* the list reset, the index kept
ClearStep_KeepIndex(c) == [c EXCEPT !.ll = <<>>]

ClearStep(c) ==
    [c EXCEPT !.ll = <<>>, !.llNil = TRUE, !.cache = EmptyMap, !.cacheNil = TRUE,
              !.elems = EmptyMap]

\* ----------------------------------------------------------- observation
\* rank of the last touch: key becomes the newest, ranks stay 1..n
TouchKey(t, key) ==
    [x \in DOMAIN t \cup {key} |->
        IF x = key THEN Cardinality(DOMAIN t \cup {key})
        ELSE Cardinality({y \in DOMAIN t \ {key} : t[y] <= t[x]})]

\* ranks of the keys that stay, renumbered 1..n in the same order
KeepKeys(t, S) ==
    [x \in DOMAIN t \cap S |-> Cardinality({y \in DOMAIN t \cap S : t[y] <= t[x]})]

\* onNil: the call found the map nil
Call(op, key, value, hit, removed) ==
    [op |-> op, key |-> key, value |-> value, hit |-> hit, removed |-> removed,
     onNil |-> cacheNil]

\* the scenario of the spec: capacity 2; Add(a,1); Add(b,2); Get(a); Add(c,3);
\* then Get(b); Get(a); Get(c), with a = 1, b = 2, c = 3
ScenNext(op, key, value) ==
    IF MaxEntries # 2 THEN 0 - 1
    ELSE IF scen = 0 /\ op = "Add" /\ key = 1 /\ value = 1 THEN 1
    ELSE IF scen = 1 /\ op = "Add" /\ key = 2 /\ value = 2 THEN 2
    ELSE IF scen = 2 /\ op = "Get" /\ key = 1 THEN 3
    ELSE IF scen = 3 /\ op = "Add" /\ key = 3 /\ value = 3 THEN 4
    ELSE IF scen = 4 /\ op = "Get" /\ key = 2 THEN 5
    ELSE IF scen = 5 /\ op = "Get" /\ key = 1 THEN 6
    ELSE IF scen = 6 /\ op = "Get" /\ key = 3 THEN 7
    ELSE 0 - 1

\* calls other than Add and Get were made, or the cache is not unlimited
DeadAdded == {NoKey}

AddedNext(op, key) ==
    IF MaxEntries # 0 \/ added = DeadAdded THEN DeadAdded
    ELSE IF op = "Add" THEN added \cup {key}
    ELSE IF op = "Get" THEN added
    ELSE DeadAdded

\* inserted is 1 for an Add that took the branch of lines 78-79
BalanceNext(inserted, calls) ==
    IF OnEvicted THEN balance + inserted - Len(calls) ELSE balance

\* a run that is no longer a sequence of Adds of distinct keys
DeadRun == <<NoKey>>

RunNext(op, key) ==
    IF op = "Add" /\ run # DeadRun /\ key \notin Range(run) THEN Append(run, key)
    ELSE DeadRun

\* ------------------------------------------------------------------ Init
Init ==
    /\ MaxEntries \in Capacities
    /\ OnEvicted \in BOOLEAN
    /\ \E c \in {NewStruct, ZeroStruct} :
          /\ ll = c.ll
          /\ llNil = c.llNil
          /\ cache = c.cache
          /\ cacheNil = c.cacheNil
          /\ elems = c.elems
    /\ last = Call("New", NoKey, NoVal, FALSE, {})
    /\ ret = <<>>
    /\ evicted = <<>>
    /\ touch = EmptyMap
    /\ ref = EmptyMap
    /\ scen = 0
    /\ run = <<>>
    /\ seen = <<>>
    /\ panicked = FALSE
    /\ added = {}
    /\ balance = 0
    /\ pc = [g \in Procs |-> "idle"]
    /\ loc = [g \in Procs |-> NoLocals]
    /\ ncalls = 0
    /\ overlap = FALSE

\* --------------------------------------------------------------- actions
\* one action per exported method; the outcome r of the method body is bound
\* once (a choice from a one-element set) and installed as the next state
Add(key, value) ==
    \E r \in {AddStep(Struct, key, value)} : \E stay \in {KeysOf(r.c)} :
        /\ ~panicked
        /\ Install(r.c)
        /\ evicted' = r.calls
        /\ ret' = <<>>
        /\ last' = Call("Add", key, value, r.hit, (KeysOf(Struct) \cup {key}) \ stay)
        /\ touch' = KeepKeys(TouchKey(touch, key), stay)
        /\ ref' = Restrict(MapSet(ref, key, value), (DOMAIN ref \cup {key}) \cap stay)
        /\ scen' = ScenNext("Add", key, value)
        /\ run' = RunNext("Add", key)
        /\ seen' = r.seen
        /\ panicked' = AddPanics(Struct, key)
        /\ added' = AddedNext("Add", key)
        /\ balance' = BalanceNext(IF r.hit THEN 0 ELSE 1, r.calls)
        /\ UNCHANGED conc
        /\ UNCHANGED <<MaxEntries, OnEvicted>>

Get(key) ==
    \E r \in {GetStep(Struct, key)} :
        /\ ~panicked
        /\ Install(r.c)
        /\ evicted' = <<>>
        /\ ret' = r.ret
        /\ last' = Call("Get", key, NoVal, r.hit, KeysOf(Struct) \ KeysOf(r.c))
        /\ touch' = IF r.ret[2] THEN TouchKey(touch, key) ELSE touch
        /\ scen' = ScenNext("Get", key, NoVal)
        /\ run' = RunNext("Get", key)
        /\ seen' = <<>>
        /\ panicked' = FALSE
        /\ added' = AddedNext("Get", key)
        /\ balance' = BalanceNext(0, <<>>)
        /\ UNCHANGED conc
        /\ UNCHANGED <<MaxEntries, OnEvicted, ref>>

Remove(key) ==
    \E r \in {RemoveStep(Struct, key)} : \E stay \in {KeysOf(r.c)} :
        /\ ~panicked
        /\ Install(r.c)
        /\ evicted' = r.calls
        /\ ret' = <<>>
        /\ last' = Call("Remove", key, NoVal, r.hit, KeysOf(Struct) \ stay)
        /\ touch' = KeepKeys(touch, stay)
        /\ ref' = Restrict(ref, DOMAIN ref \cap stay)
        /\ scen' = ScenNext("Remove", key, NoVal)
        /\ run' = RunNext("Remove", key)
        /\ seen' = r.seen
        /\ panicked' = FALSE
        /\ added' = AddedNext("Remove", key)
        /\ balance' = BalanceNext(0, r.calls)
        /\ UNCHANGED conc
        /\ UNCHANGED <<MaxEntries, OnEvicted>>

RemoveOldest ==
    \E r \in {RemoveOldestStep(Struct)} : \E stay \in {KeysOf(r.c)} :
        /\ ~panicked
        /\ Install(r.c)
        /\ evicted' = r.calls
        /\ ret' = <<>>
        /\ last' = Call("RemoveOldest", NoKey, NoVal, FALSE, KeysOf(Struct) \ stay)
        /\ touch' = KeepKeys(touch, stay)
        /\ ref' = Restrict(ref, DOMAIN ref \cap stay)
        /\ scen' = ScenNext("RemoveOldest", NoKey, NoVal)
        /\ run' = RunNext("RemoveOldest", NoKey)
        /\ seen' = r.seen
        /\ panicked' = RemoveOldestPanics(Struct)
        /\ added' = AddedNext("RemoveOldest", NoKey)
        /\ balance' = BalanceNext(0, r.calls)
        /\ UNCHANGED conc
        /\ UNCHANGED <<MaxEntries, OnEvicted>>

CacheLen ==
    /\ ~panicked
    /\ ret' = <<LenOf(Struct)>>
    /\ evicted' = <<>>
    /\ last' = Call("Len", NoKey, NoVal, FALSE, {})
    /\ scen' = ScenNext("Len", NoKey, NoVal)
    /\ run' = RunNext("Len", NoKey)
    /\ seen' = <<>>
    /\ panicked' = LenPanics(Struct)
    /\ added' = AddedNext("Len", NoKey)
    /\ balance' = BalanceNext(0, <<>>)
    /\ UNCHANGED conc
    /\ UNCHANGED <<MaxEntries, OnEvicted, ll, llNil, cache, cacheNil, elems, touch, ref>>

\* the loop of lines 150-155 runs only with a callback set, in the order ord
\* of the map range
Clear ==
    \E ord \in IF OnEvicted THEN Perms(DOMAIN cache) ELSE {<<>>} :
        /\ ~panicked
        /\ Install(ClearStep(Struct))
        /\ evicted' = ClearCalls(Struct, ord)
        /\ ret' = <<>>
        /\ last' = Call("Clear", NoKey, NoVal, FALSE, KeysOf(Struct))
        /\ touch' = EmptyMap
        /\ ref' = EmptyMap
        /\ scen' = ScenNext("Clear", NoKey, NoVal)
        /\ run' = RunNext("Clear", NoKey)
        /\ seen' = ClearSeen(Struct, ord)
        /\ panicked' = FALSE
        /\ added' = AddedNext("Clear", NoKey)
        /\ balance' = BalanceNext(0, ClearCalls(Struct, ord))
        /\ UNCHANGED conc
        /\ UNCHANGED <<MaxEntries, OnEvicted>>

Next ==
    \/ \E key \in Keys, value \in Vals : Add(key, value)
    \/ \E key \in Keys : Get(key)
    \/ \E key \in Keys : Remove(key)
    \/ RemoveOldest
    \/ CacheLen
    \/ Clear

Spec == Init /\ [][Next]_vars

\* ------------------------------------- two unsynchronised Add calls
\* Each action is one statement of Add, RemoveOldest or removeElement, run
\* by goroutine g; the statements of the two goroutines interleave freely.
MaxCalls == 2

Idle == \A g \in Procs : pc[g] = "idle"

Goto(g, label) == pc' = [pc EXCEPT ![g] = label]

Return(g) ==
    /\ pc' = [pc EXCEPT ![g] = "idle"]
    /\ loc' = [loc EXCEPT ![g] = NoLocals]

\* elements reachable from the list, the index or a local variable
Live(l, m, lc) == Range(l) \cup Range(m) \cup ({lc[g].e : g \in Procs} \ {NoElem})

structVars == <<ll, llNil, cache, cacheNil, elems>>

CallAdd(g, key, value) ==
    /\ pc[g] = "idle"
    /\ ncalls < MaxCalls
    /\ ncalls' = ncalls + 1
    /\ overlap' = (overlap \/ ~Idle)
    /\ loc' = [loc EXCEPT ![g] = [key |-> key, value |-> value, e |-> NoElem]]
    /\ Goto(g, "l66")
    /\ UNCHANGED <<structVars, evicted, panicked>>

\* line 66: if c.cache == nil
L66(g) ==
    /\ pc[g] = "l66"
    /\ Goto(g, IF cacheNil THEN "l67" ELSE "l72")
    /\ UNCHANGED <<structVars, evicted, panicked, loc, ncalls, overlap>>

\* line 67: c.cache = make(...)
L67(g) ==
    /\ pc[g] = "l67"
    /\ cache' = EmptyMap
    /\ cacheNil' = FALSE
    /\ elems' = Restrict(elems, Live(ll, cache', loc) \cap DOMAIN elems)
    /\ Goto(g, "l68")
    /\ UNCHANGED <<ll, llNil, evicted, panicked, loc, ncalls, overlap>>

\* line 68: c.ll = list.New()
L68(g) ==
    /\ pc[g] = "l68"
    /\ ll' = <<>>
    /\ llNil' = FALSE
    /\ elems' = Restrict(elems, Live(ll', cache, loc) \cap DOMAIN elems)
    /\ Goto(g, "l72")
    /\ UNCHANGED <<cache, cacheNil, evicted, panicked, loc, ncalls, overlap>>

\* line 72: if ee, ok := c.cache[key]; ok
L72(g) ==
    /\ pc[g] = "l72"
    /\ IF MapHit(cache, loc[g].key)
       THEN /\ loc' = [loc EXCEPT ![g].e = cache[loc[g].key]]
            /\ Goto(g, "l73")
       ELSE /\ Goto(g, "l78")
            /\ UNCHANGED loc
    /\ UNCHANGED <<structVars, evicted, panicked, ncalls, overlap>>

\* line 73: c.ll.MoveToFront(ee); the list is not nil once the index has a key
L73(g) ==
    /\ pc[g] = "l73"
    /\ ll' = MoveToFront(ll, loc[g].e)
    /\ Goto(g, "l74")
    /\ UNCHANGED <<llNil, cache, cacheNil, elems, evicted, panicked, loc, ncalls, overlap>>

\* lines 74-75: ee.Value.(*entry).value = value; return
L74(g) ==
    /\ pc[g] = "l74"
    /\ LET el == [elems EXCEPT ![loc[g].e].value = loc[g].value]
           lc == [loc EXCEPT ![g] = NoLocals]
       IN  elems' = Restrict(el, Live(ll, cache, lc) \cap DOMAIN el)
    /\ Return(g)
    /\ UNCHANGED <<ll, llNil, cache, cacheNil, evicted, panicked, ncalls, overlap>>

\* line 78: ele := c.ll.PushFront(&entry{key, value}); panics on a nil list
L78(g) ==
    /\ pc[g] = "l78"
    /\ IF llNil
       THEN /\ panicked' = TRUE
            /\ UNCHANGED <<structVars, pc, loc>>
       ELSE LET ele == NewElem(elems, loc[g].key)
            IN  /\ elems' = [x \in DOMAIN elems \cup {ele} |->
                               IF x = ele
                               THEN [key |-> loc[g].key, value |-> loc[g].value]
                               ELSE elems[x]]
                /\ ll' = PushFront(ll, ele)
                /\ loc' = [loc EXCEPT ![g].e = ele]
                /\ Goto(g, "l79")
                /\ UNCHANGED <<llNil, cache, cacheNil, panicked>>
    /\ UNCHANGED <<evicted, ncalls, overlap>>

\* line 79: c.cache[key] = ele; panics on a nil map
L79(g) ==
    /\ pc[g] = "l79"
    /\ IF cacheNil
       THEN /\ panicked' = TRUE
            /\ UNCHANGED <<structVars, pc>>
       ELSE /\ cache' = MapSet(cache, loc[g].key, loc[g].e)
            /\ elems' = Restrict(elems, Live(ll, cache', loc) \cap DOMAIN elems)
            /\ Goto(g, "l81")
            /\ UNCHANGED <<ll, llNil, cacheNil, panicked>>
    /\ UNCHANGED <<evicted, loc, ncalls, overlap>>

\* line 81: if c.MaxEntries != 0 && c.ll.Len() > c.MaxEntries; else return
L81(g) ==
    /\ pc[g] = "l81"
    /\ IF NeedsEviction(Struct)
       THEN Goto(g, "l118") /\ loc' = [loc EXCEPT ![g].e = NoElem]
       ELSE Return(g)
    /\ elems' = Restrict(elems, Live(ll, cache, loc') \cap DOMAIN elems)
    /\ UNCHANGED <<ll, llNil, cache, cacheNil, evicted, panicked, ncalls, overlap>>

\* lines 82, 118: RemoveOldest: if c.cache == nil return
L118(g) ==
    /\ pc[g] = "l118"
    /\ IF cacheNil THEN Return(g) ELSE Goto(g, "l122") /\ UNCHANGED loc
    /\ UNCHANGED <<structVars, evicted, panicked, ncalls, overlap>>

\* line 122: ele := c.ll.Back()
L122(g) ==
    /\ pc[g] = "l122"
    /\ loc' = [loc EXCEPT ![g].e = Back(ll)]
    /\ Goto(g, "l123")
    /\ UNCHANGED <<structVars, evicted, panicked, ncalls, overlap>>

\* line 123: if ele != nil; else return
L123(g) ==
    /\ pc[g] = "l123"
    /\ IF loc[g].e # NoElem THEN Goto(g, "l130") /\ UNCHANGED loc ELSE Return(g)
    /\ UNCHANGED <<structVars, evicted, panicked, ncalls, overlap>>

\* line 130: c.ll.Remove(e); nothing happens when e has left the list
L130(g) ==
    /\ pc[g] = "l130"
    /\ ll' = ListRemove(ll, loc[g].e)
    /\ Goto(g, "l133")
    /\ UNCHANGED <<llNil, cache, cacheNil, elems, evicted, panicked, loc, ncalls, overlap>>

\* lines 131-133: kv := e.Value.(*entry); delete(c.cache, kv.key)
L133(g) ==
    /\ pc[g] = "l133"
    /\ cache' = MapDelete(cache, elems[loc[g].e].key)
    /\ Goto(g, "l134")
    /\ UNCHANGED <<ll, llNil, cacheNil, elems, evicted, panicked, loc, ncalls, overlap>>

\* lines 134-137: if c.OnEvicted != nil { c.OnEvicted(kv.key, kv.value) }; return
L134(g) ==
    /\ pc[g] = "l134"
    /\ evicted' = IF OnEvicted THEN Append(evicted, elems[loc[g].e]) ELSE evicted
    /\ LET lc == [loc EXCEPT ![g] = NoLocals]
       IN  elems' = Restrict(elems, Live(ll, cache, lc) \cap DOMAIN elems)
    /\ Return(g)
    /\ UNCHANGED <<ll, llNil, cache, cacheNil, panicked, ncalls, overlap>>

\* a panic ends the program; the fields set at construction and the record
\* of the serial calls stay as they are
Frame ==
    /\ ~panicked
    /\ UNCHANGED <<MaxEntries, OnEvicted>>
    /\ UNCHANGED observed

\* a goroutine calls Add (the value names the caller) or runs its next
\* statement
NextConc ==
    \/ \E g \in Procs, key \in Keys : CallAdd(g, key, g) /\ Frame
    \/ \E g \in Procs : L66(g) /\ Frame
    \/ \E g \in Procs : L67(g) /\ Frame
    \/ \E g \in Procs : L68(g) /\ Frame
    \/ \E g \in Procs : L72(g) /\ Frame
    \/ \E g \in Procs : L73(g) /\ Frame
    \/ \E g \in Procs : L74(g) /\ Frame
    \/ \E g \in Procs : L78(g) /\ Frame
    \/ \E g \in Procs : L79(g) /\ Frame
    \/ \E g \in Procs : L81(g) /\ Frame
    \/ \E g \in Procs : L118(g) /\ Frame
    \/ \E g \in Procs : L122(g) /\ Frame
    \/ \E g \in Procs : L123(g) /\ Frame
    \/ \E g \in Procs : L130(g) /\ Frame
    \/ \E g \in Procs : L133(g) /\ Frame
    \/ \E g \in Procs : L134(g) /\ Frame

SpecConc == Init /\ [][NextConc]_vars

\* ------------------------------------------------- what a caller observes
Entries == EntriesOf(Struct)

Present == KeysOf(Struct)

Length == LenOf(Struct)

\* the result a Get(key) would return now
Lookup(key) == GetStep(Struct, key).ret

Miss == <<NoVal, FALSE>>

EntriesWith(key) == SelectSeq(Entries, LAMBDA en : en.key = key)

EntriesWithout(key) == SelectSeq(Entries, LAMBDA en : en.key # key)

\* ------------------------------------------------------------------ C1
\* C1: with a positive MaxEntries, Len() <= MaxEntries in every state, hence
\* after every Add: the eviction is part of the Add that overfilled the cache.
CapacityBound == MaxEntries > 0 => Length <= MaxEntries

\* an Add that evicted and left the cache full
CapacityBound_Witness ==
    /\ MaxEntries > 0
    /\ last.op = "Add"
    /\ last.removed # {}
    /\ Length = MaxEntries

\* ------------------------------------------------------------------ C2
\* the key whose last touch is the oldest once key has been touched
OldestAfterTouch(key) ==
    CHOOSE x \in DOMAIN TouchKey(touch, key) : TouchKey(touch, key)[x] = 1

\* an Add of an absent key evicts exactly the least recently touched entry;
\* the new entry goes to the front and every other entry stays
VictimIsOldest(key) ==
    /\ last'.removed = {OldestAfterTouch(key)}
    /\ key \in Present'
    /\ Present' = (Present \cup {key}) \ {OldestAfterTouch(key)}
    /\ Entries' = <<[key |-> key, value |-> last'.value]>>
                    \o EntriesWithout(OldestAfterTouch(key))

\* N+1 distinct keys added to an empty cache of capacity N and nothing else
\* called: exactly the first key added is gone
FirstAddedEvicted ==
    (MaxEntries > 0 /\ run # DeadRun /\ Len(run) = MaxEntries + 1)
        => /\ last.removed = {run[1]}
           /\ Present = Range(run) \ {run[1]}

\* C2 as stated: an Add of an absent key that takes the occupancy above a
\* nonzero MaxEntries removes exactly the least recently touched entry and
\* keeps the new entry and all others.
VictimSelection_Nonzero ==
    [][ /\ \A key \in Keys :
              (/\ last'.op = "Add"
               /\ last'.key = key
               /\ key \notin Present
               /\ MaxEntries # 0
               /\ Length + 1 > MaxEntries) => VictimIsOldest(key)
        /\ FirstAddedEvicted' ]_vars

\* C2 (amended): an Add of an absent key that takes the occupancy above a
\* positive MaxEntries removes exactly the least recently touched entry and
\* keeps the new entry and all others; N+1 distinct keys added to an empty
\* cache of capacity N >= 1 evict exactly the first one.
VictimSelection ==
    [][ /\ \A key \in Keys :
              (/\ last'.op = "Add"
               /\ last'.key = key
               /\ key \notin Present
               /\ MaxEntries > 0
               /\ Length + 1 > MaxEntries) => VictimIsOldest(key)
        /\ FirstAddedEvicted' ]_vars

\* three distinct keys added to a cache of capacity 2: the first is gone
VictimSelection_Witness ==
    /\ MaxEntries = 2
    /\ Len(run) = 3
    /\ last.removed = {run[1]}
    /\ Length = 2

\* ------------------------------------------------------------------ C3
\* the last call touched key: an Add that left it present, or a Get hit
JustTouched(key) ==
    /\ last.key = key
    /\ key \in Present
    /\ \/ last.op = "Add"
       \/ last.op = "Get" /\ ret[2]

\* this call is a RemoveOldest, or an Add of another key that evicts
EvictsNext(key) ==
    \/ last'.op = "RemoveOldest"
    \/ last'.op = "Add" /\ last'.key # key /\ last'.removed # {}

\* C3: right after an Add(k, v) that left k present, or a Get(k) hit, a
\* RemoveOldest or an evicting Add of another key removes k only when k is
\* the only entry; in the scenario (capacity 2, a older, b newer, Get(a),
\* Add(c)) it is b that goes and a that stays.
TouchProtects ==
    [][ /\ \A key \in Keys :
              (JustTouched(key) /\ EvictsNext(key) /\ key \in last'.removed)
                  => Length = 1
        /\ (scen' = 4) => (last'.removed = {2} /\ 1 \in Present') ]_vars

\* the scenario after Add(c, 3): b evicted, a kept
TouchProtects_Witness ==
    /\ scen = 4
    /\ last.op = "Add"
    /\ last.removed = {2}
    /\ Present = {1, 3}

\* ------------------------------------------------------------------ C4
\* what the reference map says a Get(key) returns
Expected(key) == IF key \in DOMAIN ref THEN <<ref[key], TRUE>> ELSE Miss

\* C4: Get(k) returns (v, true) exactly when k is present, v being the value
\* of the most recent Add(k, .), and (nil, false) otherwise; the scenario
\* capacity 2, Add(a,1), Add(b,2), Get(a), Add(c,3) ends with Len() = 2,
\* Get(b) a miss, Get(a) = 1 and Get(c) = 3.
LookupCorrect ==
    /\ \A key \in Keys : Lookup(key) = Expected(key)
    /\ \A key \in Keys : key \in DOMAIN ref <=> key \in Present
    /\ last.op = "Get" => ret = Expected(last.key)
    /\ scen = 4 => /\ Length = 2
                   /\ Lookup(2) = Miss
                   /\ Lookup(1) = <<1, TRUE>>
                   /\ Lookup(3) = <<3, TRUE>>
    /\ scen = 5 => ret = Miss
    /\ scen = 6 => ret = <<1, TRUE>>
    /\ scen = 7 => (ret = <<3, TRUE>> /\ Length = 2)

\* the scenario carried to its last Get
LookupCorrect_Witness ==
    /\ scen = 7
    /\ last.op = "Get"
    /\ ret = <<3, TRUE>>

\* ------------------------------------------------------------------ C5
\* C5: an Add(k, v) of a present key replaces k's value by v and moves k to
\* the front; Len(), the present keys, the other values and the order of the
\* other entries stay, and nothing is evicted, even in a full cache.
AddPresentRefreshes ==
    [][ \A key \in Keys :
            (last'.op = "Add" /\ last'.key = key /\ key \in Present)
                => /\ Entries' = <<[key |-> key, value |-> last'.value]>>
                                   \o EntriesWithout(key)
                   /\ Length' = Length
                   /\ Present' = Present
                   /\ last'.removed = {}
                   /\ evicted' = <<>> ]_vars

\* an Add of a present key in a full cache of two entries
AddPresentRefreshes_Witness ==
    /\ last.op = "Add"
    /\ last.hit
    /\ MaxEntries = 2
    /\ Length = 2
    /\ OnEvicted

\* ------------------------------------------------------------------ C6
\* C6: a Get miss leaves the whole cache as it is; a Get hit moves the key to
\* the front and leaves Len(), the keys, the values and the order of the
\* other entries as they are; neither invokes OnEvicted.
GetKeepsContents ==
    [][ \A key \in Keys :
            (last'.op = "Get" /\ last'.key = key)
                => IF key \in Present
                   THEN /\ Entries' = EntriesWith(key) \o EntriesWithout(key)
                        /\ Length' = Length
                        /\ Present' = Present
                        /\ evicted' = <<>>
                   ELSE /\ Struct' = Struct
                        /\ evicted' = <<>> ]_vars

\* a Get hit on a cache of at least two entries with a callback set
GetKeepsContents_Witness ==
    /\ last.op = "Get"
    /\ last.hit
    /\ Length >= 2
    /\ OnEvicted

\* ------------------------------------------------------------------ C7
\* C7: Remove(k) of a present key deletes exactly that entry: Len() drops by
\* one, a Get(k) is then a miss, OnEvicted (when set) is invoked once with k
\* and its value, and the other entries keep their values and order.
RemovePresent ==
    [][ \A key \in Keys :
            (last'.op = "Remove" /\ last'.key = key /\ key \in Present)
                => /\ Entries' = EntriesWithout(key)
                   /\ Length' = Length - 1
                   /\ Lookup(key)' = Miss
                   /\ evicted' = IF OnEvicted
                                 THEN <<[key |-> key, value |-> Lookup(key)[1]]>>
                                 ELSE <<>> ]_vars

\* a Remove hit that reported the entry and left others behind
RemovePresent_Witness ==
    /\ last.op = "Remove"
    /\ last.removed = {last.key}
    /\ Len(evicted) = 1
    /\ Length >= 1

\* ------------------------------------------------------------------ C8
\* C8: Remove(k) of an absent key changes nothing and invokes no callback,
\* so a second Remove(k) right after a first changes nothing.
RemoveAbsent ==
    [][ \A key \in Keys :
            /\ (last'.op = "Remove" /\ last'.key = key /\ key \notin Present)
                  => /\ Struct' = Struct
                     /\ Entries' = Entries
                     /\ Length' = Length
                     /\ evicted' = <<>>
            /\ (/\ last.op = "Remove" /\ last.key = key
                /\ last'.op = "Remove" /\ last'.key = key)
                  => /\ Struct' = Struct
                     /\ evicted' = <<>> ]_vars

\* a Remove miss on a cache that holds entries and has a callback
RemoveAbsent_Witness ==
    /\ last.op = "Remove"
    /\ ~last.hit
    /\ Length >= 1
    /\ OnEvicted

\* ------------------------------------------------------------------ C9
\* C9: RemoveOldest on a non-empty cache removes the back entry, the least
\* recently touched one: Len() drops by one, the others keep their order, and
\* OnEvicted (when set) is invoked once with that entry; on an empty cache it
\* changes nothing and invokes nothing.
RemoveOldestBack ==
    [][ last'.op = "RemoveOldest"
            => IF Length > 0
               THEN /\ Entries' = SubSeq(Entries, 1, Length - 1)
                    /\ Length' = Length - 1
                    /\ last'.removed = {Entries[Length].key}
                    /\ touch[Entries[Length].key] = 1
                    /\ evicted' = IF OnEvicted THEN <<Entries[Length]>> ELSE <<>>
               ELSE /\ Struct' = Struct
                    /\ evicted' = <<>> ]_vars

\* a RemoveOldest that reported one entry and left others behind
RemoveOldestBack_Witness ==
    /\ last.op = "RemoveOldest"
    /\ Cardinality(last.removed) = 1
    /\ Len(evicted) = 1
    /\ Length >= 1

\* ------------------------------------------------------------------ C10
Empty == Length = 0 /\ \A key \in Keys : Lookup(key) = Miss

\* C10: after Clear, Len() is 0 and every Get is a miss, and both stay so
\* as long as no Add is called.
ClearResets ==
    [][ /\ last'.op = "Clear" => Empty'
        /\ (Empty /\ last'.op # "Add") => Empty' ]_vars

\* a Clear of a cache that held at least two entries
ClearResets_Witness ==
    /\ last.op = "Clear"
    /\ Cardinality(last.removed) >= 2
    /\ Empty

\* ------------------------------------------------------------------ C11
\* C11: with OnEvicted set, Clear invokes it exactly once for each entry
\* present at the call, with that entry's key and value, in some order, for
\* no other key, and every invocation sees the cache not yet reset; a Clear
\* of an empty or cleared cache invokes it zero times.
ClearNotifiesAll ==
    [][ last'.op = "Clear"
            => IF OnEvicted
               THEN /\ Len(evicted') = Length
                    /\ Range(evicted') = Range(Entries)
                    /\ \A i, j \in DOMAIN evicted' :
                          evicted'[i].key = evicted'[j].key => i = j
                    /\ Len(seen') = Len(evicted')
                    /\ \A i \in DOMAIN seen' :
                          ~seen'[i].reset /\ seen'[i].len = Length
               ELSE evicted' = <<>> ]_vars

\* a Clear that notified two or more entries, not in the order of the list
ClearNotifiesAll_Witness ==
    /\ last.op = "Clear"
    /\ Len(evicted) >= 2
    /\ Len(seen) = Len(evicted)
    /\ evicted[1].key > evicted[2].key
    /\ cacheNil

\* ------------------------------------------------------------------ C12
\* the entry an evicting Add(key, value) gives up
VictimEntry(key, value) ==
    [key   |-> OldestAfterTouch(key),
     value |-> IF OldestAfterTouch(key) = key THEN value
               ELSE ref[OldestAfterTouch(key)]]

\* C12: an Add invokes OnEvicted at most once; with the callback set it is
\* invoked exactly once, with the key and value of the least recently used
\* entry, exactly when the Add inserted an absent key and the occupancy then
\* exceeded a nonzero MaxEntries; an Add of a present key never invokes it.
\* With capacity 1, Add(a,1) invokes nothing and Add(b,2) then invokes it
\* once with (a,1).
AddCallsBackOnce ==
    [][ /\ \A key \in Keys :
              (last'.op = "Add" /\ last'.key = key)
                  => /\ Len(evicted') <= 1
                     /\ Len(evicted') = 1
                          <=> (/\ OnEvicted
                               /\ key \notin Present
                               /\ MaxEntries # 0
                               /\ Length + 1 > MaxEntries)
                     /\ Len(evicted') = 1
                          => evicted'[1] = VictimEntry(key, last'.value)
                     /\ key \in Present => evicted' = <<>>
        /\ (MaxEntries = 1 /\ OnEvicted /\ run' = <<1>>) => evicted' = <<>>
        /\ (/\ MaxEntries = 1 /\ OnEvicted
            /\ run = <<1>> /\ last.value = 1
            /\ run' = <<1, 2>> /\ last'.value = 2)
              => evicted' = <<[key |-> 1, value |-> 1]>> ]_vars

\* capacity 1: Add(a,1) then Add(b,2) has invoked OnEvicted(a,1)
AddCallsBackOnce_Witness ==
    /\ MaxEntries = 1
    /\ OnEvicted
    /\ run = <<1, 2>>
    /\ last.value = 2
    /\ evicted = <<[key |-> 1, value |-> 1]>>

\* ------------------------------------------------------------------ C13
\* C13: with MaxEntries = 0 no Add removes an entry or invokes OnEvicted;
\* after Add and Get calls only, Len() is the number of distinct keys added;
\* entries leave only by Remove, RemoveOldest or Clear.
ZeroIsUnlimited ==
    [][ MaxEntries = 0
            => /\ last'.op = "Add"
                    => /\ last'.removed = {}
                       /\ evicted' = <<>>
                       /\ Present \subseteq Present'
                       /\ last'.key \in Present'
               /\ added' # DeadAdded
                    => /\ Length' = Cardinality(added')
                       /\ Present' = added'
               /\ last'.removed # {}
                    => last'.op \in {"Remove", "RemoveOldest", "Clear"} ]_vars

\* every key added to an unlimited cache, with Gets in between, and all kept
ZeroIsUnlimited_Witness ==
    /\ MaxEntries = 0
    /\ added = Keys
    /\ Length = NumKeys
    /\ last.op = "Get"
    /\ OnEvicted

\* ------------------------------------------------------------------ C14
\* C14: no call panics, from a fresh cache, a zero-value cache or a cleared
\* one; on the nil structures Get is a miss, Len is 0, Remove, RemoveOldest
\* and Clear change nothing, and Add re-creates list and map, keeping
\* MaxEntries and OnEvicted.
NoCallFails ==
    [][ /\ ~panicked'
        /\ MaxEntries' = MaxEntries
        /\ OnEvicted' = OnEvicted
        /\ cacheNil
             => /\ llNil
                /\ last'.op = "Get" => (ret' = Miss /\ Struct' = Struct)
                /\ last'.op = "Len" => (ret' = <<0>> /\ Struct' = Struct)
                /\ last'.op \in {"Remove", "RemoveOldest", "Clear"}
                     => (Struct' = Struct /\ evicted' = <<>>)
                /\ last'.op = "Add"
                     => /\ ~cacheNil' /\ ~llNil'
                        /\ Consistent(Struct)'
                        /\ \A key \in Keys :
                              (MaxEntries >= 0 /\ last'.key = key)
                                  => Lookup(key)' = <<last'.value, TRUE>> ]_vars

\* an Add that found the structures nil after earlier calls made the cache
\* usable again
NoCallFails_Witness ==
    /\ last.op = "Add"
    /\ last.onNil
    /\ run = DeadRun
    /\ ~cacheNil
    /\ ~llNil
    /\ Length = 1
    /\ ~panicked

\* ------------------------------------------------------------------ C16
\* C16: in every state, and at every OnEvicted invocation made by Remove,
\* RemoveOldest or an evicting Add, the index and the list hold the same
\* keys, the list has one node per key, every handle is the live node of its
\* key, and Len() is the number of indexed keys.
IndexListBijection ==
    /\ Consistent(Struct)
    /\ last.op \in {"Add", "Remove", "RemoveOldest"}
          => \A i \in DOMAIN seen : seen[i].ok

\* an eviction whose callback saw a consistent cache that still held entries
IndexListBijection_Witness ==
    /\ last.op = "Add"
    /\ Len(seen) = 1
    /\ seen[1].ok
    /\ seen[1].len = 2
    /\ Consistent(Struct)

\* ------------------------------------------------------------------ C17
\* the list, front to back, is the present keys by last touch, newest first
RecencySorted ==
    /\ DOMAIN touch = Present
    /\ \A i \in DOMAIN ll : touch[elems[ll[i]].key] = Len(ll) - i + 1

\* C17: at the start and after every call the list read front to back is the
\* present keys sorted by the time of their last touch, most recent first; Remove,
\* RemoveOldest and a Get miss never reorder the entries that remain.
RecencyOrder ==
    /\ RecencySorted
    /\ [][ /\ RecencySorted'
           /\ (\/ last'.op \in {"Remove", "RemoveOldest"}
               \/ last'.op = "Get" /\ ~ret'[2])
                 => Entries' = SelectSeq(Entries, LAMBDA en : en.key \notin last'.removed) ]_vars

\* a Get hit brought the oldest of three entries to the front
RecencyOrder_Witness ==
    /\ last.op = "Get"
    /\ last.hit
    /\ Length = 3
    /\ Entries[1].key = last.key
    /\ touch[last.key] = 3
    /\ Entries[3].key > Entries[2].key

\* ------------------------------------------------------------------ C18
\* C18: a key becomes present only by an Add of that key; it becomes absent
\* only by Remove of that key, RemoveOldest, the eviction of an Add of another
\* key, or Clear; Get, Len, Remove of another key and Add of a present key
\* leave the set of present keys as it is.
EntryStateMachine ==
    [][ /\ \A key \in Present' \ Present : last'.op = "Add" /\ last'.key = key
        /\ \A key \in Present \ Present' :
              \/ last'.op = "Remove" /\ last'.key = key
              \/ last'.op = "RemoveOldest"
              \/ last'.op = "Add" /\ last'.key # key /\ last'.key \notin Present
              \/ last'.op = "Clear"
        /\ (\/ last'.op \in {"Get", "Len"}
            \/ last'.op = "Add" /\ last'.key \in Present)
              => Present' = Present
        /\ last'.op = "Remove"
              => Present' \ {last'.key} = Present \ {last'.key} ]_vars

\* an Add that brought one key in and pushed another out
EntryStateMachine_Witness ==
    /\ last.op = "Add"
    /\ ~last.hit
    /\ last.key \in Present
    /\ Cardinality(last.removed) = 1
    /\ last.key \notin last.removed
    /\ MaxEntries = 2

\* ------------------------------------------------------------------ C19
\* C19: with MaxEntries = 0 or MaxEntries >= 1, right after Add(k, v) the key
\* k is present and Get(k) returns (v, true); the eviction of that Add never
\* takes the entry just inserted.
JustAddedPresent ==
    (last.op = "Add" /\ MaxEntries >= 0)
        => /\ last.key \in Present
           /\ Lookup(last.key) = <<last.value, TRUE>>
           /\ last.key \notin last.removed

\* capacity 1: the Add evicted the previous sole entry and kept its own
JustAddedPresent_Witness ==
    /\ MaxEntries = 1
    /\ last.op = "Add"
    /\ Cardinality(last.removed) = 1
    /\ Present = {last.key}

\* ------------------------------------------------------------------ C20
\* the entry of a key that leaves in this step
Departed(key) ==
    [key |-> key, value |-> IF key \in DOMAIN ref THEN ref[key] ELSE last'.value]

\* C20: with OnEvicted set, the insertions of absent keys equal Len() plus
\* the OnEvicted invocations; every entry that leaves is reported exactly
\* once with its key and the value of its most recent Add, and an Add of a
\* present key reports nothing.
CallbackConservation ==
    [][ OnEvicted
            => /\ balance = Length
               /\ balance' = Length'
               /\ Len(evicted') = Cardinality(last'.removed)
               /\ Range(evicted') = {Departed(key) : key \in last'.removed}
               /\ (last'.op = "Add" /\ last'.key \in Present) => evicted' = <<>> ]_vars

\* after insertions and reported departures the cache still holds entries
CallbackConservation_Witness ==
    /\ OnEvicted
    /\ last.op = "Remove"
    /\ Len(evicted) = 1
    /\ balance = 2
    /\ Length = 2

\* ------------------------------------------------------------------ C15
\* two list nodes carry the same key
TwoNodesOneKey ==
    \E i, j \in DOMAIN ll : i # j /\ elems[ll[i]].key = elems[ll[j]].key

\* list and index disagree, or Len() is above a positive capacity
Disagree ==
    \/ ~Consistent(Struct)
    \/ MaxEntries > 0 /\ Length > MaxEntries

\* C15: a panic, or a state between calls where the list and the index
\* disagree or Len() exceeds a positive MaxEntries, is reached only when Add
\* calls overlapped; calls that run one after the other (no call starts
\* while another is in progress) never reach one.
SerializedIsSafe == (panicked \/ (Idle /\ Disagree)) => overlap

\* two overlapping Adds of one absent key have both returned: the list has
\* two nodes for the key, the index one handle
SerializedIsSafe_Witness ==
    /\ Idle
    /\ overlap
    /\ ncalls = 2
    /\ TwoNodesOneKey
    /\ Disagree
    /\ Cardinality(DOMAIN cache) = 1

====
